---- MODULE Spec2Model ----
(***************************************************************************)
(* Model of ip-rep-checker.py: one run of main(), from the credential      *)
(* check through the two HTTP calls to the report written by               *)
(* save_results_to_file, with the exceptions each step can raise and the   *)
(* except clauses that catch them.                                         *)
(***************************************************************************)
EXTENDS Integers, Sequences, FiniteSets, TLC

VARIABLES
    pc,               \* position of the run in main / save_results_to_file
    api_key,          \* os.getenv('ABUSEIPDB_API_KEY')
    ip_address,       \* result of get_current_ip()
    reputation_data,  \* result of check_ip_reputation()
    now,              \* datetime.now() formatted, read while rendering
    fs,               \* the output folder and the output file on disk
    fs0,              \* fs as it was before the run (history)
    buf,              \* f.write() calls not yet flushed to the file
    ret,              \* return value of save_results_to_file
    exitCode,         \* process exit status: <<>> while running, <<code>> once exited
    resolverCalls,    \* requests.get calls made by get_current_ip (history)
    lookupCalls,      \* requests.get calls made by check_ip_reputation (history)
    saveCalls,        \* calls of save_results_to_file (history)
    errors,           \* failures met during the run (history)
    interrupted       \* a KeyboardInterrupt was raised (history)

vars == <<pc, api_key, ip_address, reputation_data, now, fs, fs0, buf, ret,
          exitCode, resolverCalls, lookupCalls, saveCalls, errors, interrupted>>

-----------------------------------------------------------------------------
(* Bounds *)

MaxScore == 100      \* largest abuseConfidenceScore drawn
MaxReports == 6      \* longest reports sequence drawn
MaxCalls == 2        \* cap on the call counters

-----------------------------------------------------------------------------
(* Python values *)

None == "<None>"

\* truthiness of an optional string: None and "" are falsy
Truthy(s) == s # None /\ s # ""

\* dict.get(key, default)
Get(info, key, default) == IF key \in DOMAIN info THEN info[key] ELSE default

\* s * n
RECURSIVE Repeat(_, _)
Repeat(s, n) == IF n = 0 THEN "" ELSE s \o Repeat(s, n - 1)

\* ', '.join(map(str, categories))
RECURSIVE JoinCategories(_)
JoinCategories(categories) ==
    IF Len(categories) = 0 THEN ""
    ELSE IF Len(categories) = 1 THEN ToString(Head(categories))
    ELSE ToString(Head(categories)) \o ", " \o JoinCategories(Tail(categories))

\* sequence[-n:], the last n instead of the first n
Slice_Last(s, n) == SubSeq(s, IF Len(s) < n THEN 1 ELSE Len(s) - n + 1, Len(s))

\* sequence[:n]
Slice(s, n) == SubSeq(s, 1, IF Len(s) < n THEN Len(s) ELSE n)

-----------------------------------------------------------------------------
(* Exception classes and the except clauses of the program *)

\* exc is an instance of class cls
IsInstance(exc, cls) ==
    \/ cls = exc
    \/ cls = "BaseException"
    \/ cls = "Exception" /\ exc \in {"RequestException", "OSError", "KeyError",
                                     "AttributeError", "ValueError"}

ResolverExcept == "RequestException"
LookupExcept == "RequestException"
\* a bare except clause around the report writing
SaveExcept_Bare == "BaseException"
SaveExcept == "Exception"
TopExcept == "KeyboardInterrupt"

-----------------------------------------------------------------------------
(* Responses of the two HTTP endpoints *)

\* values of the 'ip' field of the resolver's JSON body
ResolverIps == {"1.2.3.4", ""}

\* the optional fields of the record, with a value for each when present
FieldValues ==
    [countryName |-> "Testland", countryCode |-> "TL", isp |-> "Example ISP",
     domain |-> "example.net", usageType |-> "Data Center",
     totalReports |-> 3, numDistinctUsers |-> 2,
     lastReportedAt |-> "2024-05-01T10:00:00+00:00", isWhitelisted |-> TRUE]

OptionalFields == DOMAIN FieldValues

\* entries of the 'reports' list
ReportEntries ==
    { [reportedAt |-> "2024-05-01T10:00:00+00:00", categories |-> <<18, 22>>],
      [reportedAt |-> "2024-04-30T09:00:00+00:00", categories |-> <<22, 18, 5>>],
      [categories |-> <<14>>],
      [reportedAt |-> "2024-04-29T08:00:00+00:00"] }

RECURSIVE SeqsUpTo(_, _)
SeqsUpTo(S, n) ==
    IF n = 0 THEN {<<>>}
    ELSE LET shorter == SeqsUpTo(S, n - 1)
         IN shorter \cup {Append(s, e) : s \in {t \in shorter : Len(t) = n - 1}, e \in S}

\* a dict restricted to some of its keys
Restrict(f, keys) == [k \in keys |-> f[k]]

\* the 'data' objects drawn: every subset of the optional fields (isWhitelisted
\* true or false when present), every score with the other fields present, and
\* every reports sequence up to MaxReports over two kinds of entry
Infos ==
    LET full == [k \in OptionalFields \cup {"abuseConfidenceScore"} |->
                    IF k = "abuseConfidenceScore" THEN 42 ELSE FieldValues[k]]
        bySubset == {Restrict(full, S \cup {"abuseConfidenceScore"}) : S \in SUBSET OptionalFields}
        notWhitelisted == {[i EXCEPT !["isWhitelisted"] = FALSE] :
                              i \in {j \in bySubset : "isWhitelisted" \in DOMAIN j}}
        byScore == {[full EXCEPT !["abuseConfidenceScore"] = s] : s \in 0..MaxScore}
                       \cup {Restrict(full, OptionalFields)}
        twoEntries == {e \in ReportEntries : "categories" \in DOMAIN e /\ Len(e.categories) > 1}
        byReports == {[k \in {"abuseConfidenceScore", "countryName", "reports"} |->
                          IF k = "reports" THEN r ELSE full[k]] :
                      r \in SeqsUpTo(twoEntries, MaxReports) \cup SeqsUpTo(ReportEntries, 2)}
    IN bySubset \cup notWhitelisted \cup byScore \cup byReports

\* JSON bodies of the lookup endpoint: {} ("empty"), a dict without 'data'
\* ("nodata"), {'data': null} ("nulldata"), {'data': {...}} ("record")
LookupBodies ==
    {[kind |-> k, info |-> <<>>] : k \in {"empty", "nodata", "nulldata"}}
        \cup {[kind |-> "record", info |-> i] : i \in Infos}

NoneData == [kind |-> "None", info |-> <<>>]

\* truthiness of the lookup result: None and {} are falsy
TruthyData(data) == data.kind \notin {"None", "empty"}

\* 'data' in data
HasDataKey(data) == data.kind \in {"nulldata", "record"}

\* the formatted datetime.now()
Timestamps == {"2026-01-01 12:00:00"}

-----------------------------------------------------------------------------
(* The output folder and file *)

OldContent == <<"old report\n">>

InitialFs ==
    { [folder |-> FALSE, file |-> FALSE, content |-> <<>>],
      [folder |-> TRUE,  file |-> FALSE, content |-> <<>>],
      [folder |-> TRUE,  file |-> TRUE,  content |-> OldContent] }

\* the with block closes f: what was written reaches the file
Flush(disk, written) == [disk EXCEPT !.content = written]

-----------------------------------------------------------------------------
(* Rendering: the f.write calls of save_results_to_file, one element each *)

NoDataWrites == <<"No data received from API\n">>

\* the thresholds taken inclusively
Status_Inclusive(score) ==
    IF score = 0 THEN "CLEAN"
    ELSE IF score <= 25 THEN "LOW RISK"
    ELSE IF score <= 75 THEN "MODERATE RISK"
    ELSE "HIGH RISK"

\* the if / elif chain on the score
Status(score) ==
    IF score = 0 THEN "CLEAN"
    ELSE IF score < 25 THEN "LOW RISK"
    ELSE IF score < 75 THEN "MODERATE RISK"
    ELSE "HIGH RISK"

HeaderWrites(ip, date) ==
    << Repeat("=", 60) \o "\n",
       "IP REPUTATION REPORT\n",
       Repeat("=", 60) \o "\n\n",
       "IP Address: " \o ip \o "\n",
       "Check Date: " \o date \o "\n\n" >>

StatusWrites(info) ==
    LET score == Get(info, "abuseConfidenceScore", 0)
    IN << "Reputation Status: " \o Status(score) \o "\n",
          "Abuse Confidence Score: " \o ToString(score) \o "%\n\n" >>

\* one placeholder for every absent string field
FieldWrites_OneDefault(info) ==
    << "Country: " \o Get(info, "countryName", "Unknown")
           \o " (" \o Get(info, "countryCode", "Unknown") \o ")\n",
       "ISP: " \o Get(info, "isp", "Unknown") \o "\n",
       "Domain: " \o Get(info, "domain", "Unknown") \o "\n",
       "Usage Type: " \o Get(info, "usageType", "Unknown") \o "\n",
       "Total Reports: " \o ToString(Get(info, "totalReports", 0)) \o "\n",
       "Distinct Users Reported: " \o ToString(Get(info, "numDistinctUsers", 0)) \o "\n",
       "Last Reported: " \o Get(info, "lastReportedAt", "Unknown") \o "\n",
       "Whitelisted: " \o (IF Get(info, "isWhitelisted", FALSE) THEN "Yes" ELSE "No") \o "\n" >>

FieldWrites(info) ==
    << "Country: " \o Get(info, "countryName", "Unknown")
           \o " (" \o Get(info, "countryCode", "N/A") \o ")\n",
       "ISP: " \o Get(info, "isp", "Unknown") \o "\n",
       "Domain: " \o Get(info, "domain", "N/A") \o "\n",
       "Usage Type: " \o Get(info, "usageType", "Unknown") \o "\n",
       "Total Reports: " \o ToString(Get(info, "totalReports", 0)) \o "\n",
       "Distinct Users Reported: " \o ToString(Get(info, "numDistinctUsers", 0)) \o "\n",
       "Last Reported: " \o Get(info, "lastReportedAt", "Never") \o "\n",
       "Whitelisted: " \o (IF Get(info, "isWhitelisted", FALSE) THEN "Yes" ELSE "No") \o "\n" >>

ReportWrite(report) ==
    "  - " \o Get(report, "reportedAt", "N/A") \o ": "
        \o JoinCategories(Get(report, "categories", <<>>)) \o "\n"

ReportWrites(info) ==
    LET reports == Get(info, "reports", <<>>)
        shown == Slice(reports, 5)
    IN IF Len(reports) > 0
       THEN <<"\nRecent Reports:\n">> \o [i \in 1..Len(shown) |-> ReportWrite(shown[i])]
       ELSE <<>>

FooterWrites == << "\n" \o Repeat("=", 60) \o "\n" >>

-----------------------------------------------------------------------------
(* Control *)

SavePcs == {"save_mkdir", "save_open", "save_branch", "save_header", "save_status",
            "save_fields", "save_reports", "save_footer", "save_close", "save_print"}

\* positions inside the with block, where f is open
OpenPcs == {"save_branch", "save_header", "save_status", "save_fields",
            "save_reports", "save_footer", "save_close"}

Init ==
    /\ pc = "main_start"
    /\ api_key \in {None, "", "secret-key"}
    /\ ip_address = None
    /\ reputation_data = NoneData
    /\ now = None
    /\ fs0 \in InitialFs
    /\ fs = fs0
    /\ buf = <<>>
    /\ ret = "None"
    /\ exitCode = <<>>
    /\ resolverCalls = 0
    /\ lookupCalls = 0
    /\ saveCalls = 0
    /\ errors = {}
    /\ interrupted = FALSE

\* sys.exit(code)
Exit(code) ==
    /\ pc' = "exited"
    /\ exitCode' = <<code>>

\* exc is raised at the current position, leaving the file system as disk: the
\* innermost enclosing try whose except clause matches handles it
Raise(exc, disk) ==
    /\ fs' = disk
    /\ buf' = <<>>
    /\ IF pc = "resolve" /\ IsInstance(exc, ResolverExcept)
       THEN /\ ip_address' = None
            /\ pc' = "check_ip"
            /\ UNCHANGED <<reputation_data, ret, exitCode>>
       ELSE IF pc = "lookup" /\ IsInstance(exc, LookupExcept)
       THEN /\ reputation_data' = NoneData
            /\ pc' = "check_rep"
            /\ UNCHANGED <<ip_address, ret, exitCode>>
       ELSE IF pc \in SavePcs /\ IsInstance(exc, SaveExcept)
       THEN /\ ret' = "False"
            /\ pc' = "save_ret"
            /\ UNCHANGED <<ip_address, reputation_data, exitCode>>
       ELSE /\ Exit(IF IsInstance(exc, TopExcept) THEN 0 ELSE 1)
            /\ UNCHANGED <<ip_address, reputation_data, ret>>

\* the credential tested against None only, so that "" passes
CheckKey_NoneOnly ==
    /\ pc = "main_start"
    /\ IF api_key = None
       THEN /\ Exit(1)
            /\ errors' = errors \cup {"config"}
       ELSE /\ pc' = "resolve"
            /\ UNCHANGED <<exitCode, errors>>
    /\ UNCHANGED <<api_key, ip_address, reputation_data, now, fs, fs0, buf, ret,
                   resolverCalls, lookupCalls, saveCalls, interrupted>>

\* main: the credential check
CheckKey ==
    /\ pc = "main_start"
    /\ IF ~Truthy(api_key)
       THEN /\ Exit(1)
            /\ errors' = errors \cup {"config"}
       ELSE /\ pc' = "resolve"
            /\ UNCHANGED <<exitCode, errors>>
    /\ UNCHANGED <<api_key, ip_address, reputation_data, now, fs, fs0, buf, ret,
                   resolverCalls, lookupCalls, saveCalls, interrupted>>

GetCurrentIp ==
    /\ pc = "resolve"
    /\ resolverCalls < MaxCalls
    /\ resolverCalls' = resolverCalls + 1
    /\ \E outcome \in {"ok", "RequestException", "KeyError", "KeyboardInterrupt"} :
        IF outcome = "ok"
        THEN /\ \E ip \in ResolverIps : ip_address' = ip
             /\ pc' = "check_ip"
             /\ UNCHANGED <<reputation_data, fs, buf, ret, exitCode, errors, interrupted>>
        ELSE /\ Raise(outcome, fs)
             /\ errors' = errors \cup
                    (CASE outcome = "RequestException" -> {"resolver"}
                       [] outcome = "KeyError" -> {"resolver_body"}
                       [] OTHER -> {})
             /\ interrupted' = (interrupted \/ outcome = "KeyboardInterrupt")
    /\ UNCHANGED <<api_key, now, fs0, lookupCalls, saveCalls>>

\* main going on to the lookup without testing ip_address
CheckIp_NoExit ==
    /\ pc = "check_ip"
    /\ pc' = "lookup"
    /\ UNCHANGED <<api_key, ip_address, reputation_data, now, fs, fs0, buf, ret, exitCode,
                   resolverCalls, lookupCalls, saveCalls, errors, interrupted>>

\* main: if not ip_address
CheckIp ==
    /\ pc = "check_ip"
    /\ IF ~Truthy(ip_address)
       THEN Exit(1)
       ELSE pc' = "lookup" /\ UNCHANGED exitCode
    /\ UNCHANGED <<api_key, ip_address, reputation_data, now, fs, fs0, buf, ret,
                   resolverCalls, lookupCalls, saveCalls, errors, interrupted>>

CheckIpReputation ==
    /\ pc = "lookup"
    /\ lookupCalls < MaxCalls
    /\ lookupCalls' = lookupCalls + 1
    /\ \E outcome \in {"ok", "RequestException", "ValueError", "KeyboardInterrupt"} :
        IF outcome = "ok"
        THEN /\ \E body \in LookupBodies : reputation_data' = body
             /\ pc' = "check_rep"
             /\ UNCHANGED <<ip_address, fs, buf, ret, exitCode, errors, interrupted>>
        ELSE /\ Raise(outcome, fs)
             /\ errors' = errors \cup
                    (CASE outcome = "RequestException" -> {"lookup"}
                       [] outcome = "ValueError" -> {"lookup_body"}
                       [] OTHER -> {})
             /\ interrupted' = (interrupted \/ outcome = "KeyboardInterrupt")
    /\ UNCHANGED <<api_key, now, fs0, resolverCalls, saveCalls>>

\* main calling save_results_to_file whatever the lookup returned
CheckRep_AlwaysSave ==
    /\ pc = "check_rep"
    /\ saveCalls < MaxCalls
    /\ saveCalls' = saveCalls + 1
    /\ pc' = "save_mkdir"
    /\ UNCHANGED <<api_key, ip_address, reputation_data, now, fs, fs0, buf, ret, exitCode,
                   resolverCalls, lookupCalls, errors, interrupted>>

\* main: if reputation_data ... else
CheckRep ==
    /\ pc = "check_rep"
    /\ IF TruthyData(reputation_data)
       THEN /\ saveCalls < MaxCalls
            /\ saveCalls' = saveCalls + 1
            /\ pc' = "save_mkdir"
            /\ UNCHANGED exitCode
       ELSE /\ Exit(1)
            /\ UNCHANGED saveCalls
    /\ UNCHANGED <<api_key, ip_address, reputation_data, now, fs, fs0, buf, ret,
                   resolverCalls, lookupCalls, errors, interrupted>>

\* Path(output_folder).mkdir(parents=True, exist_ok=True)
SaveMkdir ==
    /\ pc = "save_mkdir"
    /\ \E ok \in BOOLEAN :
        IF ok
        THEN /\ fs' = [fs EXCEPT !.folder = TRUE]
             /\ pc' = "save_open"
             /\ UNCHANGED <<ip_address, reputation_data, buf, ret, exitCode, errors>>
        ELSE /\ Raise("OSError", fs)
             /\ errors' = errors \cup {"write"}
    /\ UNCHANGED <<api_key, now, fs0, resolverCalls, lookupCalls, saveCalls, interrupted>>

\* open(filepath, 'w'): creates the file or truncates it
SaveOpen ==
    /\ pc = "save_open"
    /\ \E ok \in BOOLEAN :
        IF ok
        THEN /\ fs' = [fs EXCEPT !.file = TRUE, !.content = <<>>]
             /\ buf' = <<>>
             /\ pc' = "save_branch"
             /\ UNCHANGED <<ip_address, reputation_data, ret, exitCode, errors>>
        ELSE /\ Raise("OSError", fs)
             /\ errors' = errors \cup {"write"}
    /\ UNCHANGED <<api_key, now, fs0, resolverCalls, lookupCalls, saveCalls, interrupted>>

\* if not data or 'data' not in data
NoData(data) == ~TruthyData(data) \/ ~HasDataKey(data)

SaveBranch ==
    /\ pc = "save_branch"
    /\ IF NoData(reputation_data)
       THEN /\ buf' = buf \o NoDataWrites
            /\ pc' = "save_close"
       ELSE /\ pc' = "save_header"
            /\ UNCHANGED buf
    /\ UNCHANGED <<api_key, ip_address, reputation_data, now, fs, fs0, ret, exitCode,
                   resolverCalls, lookupCalls, saveCalls, errors, interrupted>>

SaveHeader ==
    /\ pc = "save_header"
    /\ \E date \in Timestamps :
        /\ now' = date
        /\ buf' = buf \o HeaderWrites(ip_address, date)
    /\ pc' = "save_status"
    /\ UNCHANGED <<api_key, ip_address, reputation_data, fs, fs0, ret, exitCode,
                   resolverCalls, lookupCalls, saveCalls, errors, interrupted>>

\* info.get raises AttributeError when data['data'] is not a dict
SaveStatus ==
    /\ pc = "save_status"
    /\ IF reputation_data.kind = "record"
       THEN /\ buf' = buf \o StatusWrites(reputation_data.info)
            /\ pc' = "save_fields"
            /\ UNCHANGED <<ip_address, reputation_data, fs, ret, exitCode, errors>>
       ELSE /\ Raise("AttributeError", Flush(fs, buf))
            /\ errors' = errors \cup {"render"}
    /\ UNCHANGED <<api_key, now, fs0, resolverCalls, lookupCalls, saveCalls, interrupted>>

SaveFields ==
    /\ pc = "save_fields"
    /\ buf' = buf \o FieldWrites(reputation_data.info)
    /\ pc' = "save_reports"
    /\ UNCHANGED <<api_key, ip_address, reputation_data, now, fs, fs0, ret, exitCode,
                   resolverCalls, lookupCalls, saveCalls, errors, interrupted>>

SaveReports ==
    /\ pc = "save_reports"
    /\ buf' = buf \o ReportWrites(reputation_data.info)
    /\ pc' = "save_footer"
    /\ UNCHANGED <<api_key, ip_address, reputation_data, now, fs, fs0, ret, exitCode,
                   resolverCalls, lookupCalls, saveCalls, errors, interrupted>>

SaveFooter ==
    /\ pc = "save_footer"
    /\ buf' = buf \o FooterWrites
    /\ pc' = "save_close"
    /\ UNCHANGED <<api_key, ip_address, reputation_data, now, fs, fs0, ret, exitCode,
                   resolverCalls, lookupCalls, saveCalls, errors, interrupted>>

\* leaving the with block: f is flushed and closed; on the no-data path the
\* pending "return False" completes. A failing flush leaves part of the writes.
SaveClose ==
    /\ pc = "save_close"
    /\ \E ok \in BOOLEAN :
        IF ok
        THEN /\ fs' = Flush(fs, buf)
             /\ buf' = <<>>
             /\ IF NoData(reputation_data)
                THEN ret' = "False" /\ pc' = "save_ret"
                ELSE pc' = "save_print" /\ UNCHANGED ret
             /\ UNCHANGED <<ip_address, reputation_data, exitCode, errors>>
        ELSE /\ \E k \in 0..(Len(buf) - 1) : Raise("OSError", Flush(fs, SubSeq(buf, 1, k)))
             /\ errors' = errors \cup {"write"}
    /\ UNCHANGED <<api_key, now, fs0, resolverCalls, lookupCalls, saveCalls, interrupted>>

\* print("Results saved ..."); return True
SaveReturn ==
    /\ pc = "save_print"
    /\ ret' = "True"
    /\ pc' = "save_ret"
    /\ UNCHANGED <<api_key, ip_address, reputation_data, now, fs, fs0, buf, exitCode,
                   resolverCalls, lookupCalls, saveCalls, errors, interrupted>>

\* main returns after save_results_to_file, whatever it returned
MainReturn ==
    /\ pc = "save_ret"
    /\ Exit(0)
    /\ UNCHANGED <<api_key, ip_address, reputation_data, now, fs, fs0, buf, ret,
                   resolverCalls, lookupCalls, saveCalls, errors, interrupted>>

\* Ctrl-C between two steps of the run
Interrupt ==
    /\ pc # "exited"
    /\ interrupted' = TRUE
    /\ Raise("KeyboardInterrupt", IF pc \in OpenPcs THEN Flush(fs, buf) ELSE fs)
    /\ UNCHANGED <<api_key, now, fs0, resolverCalls, lookupCalls, saveCalls, errors>>

Next ==
    \/ CheckKey
    \/ GetCurrentIp
    \/ CheckIp
    \/ CheckIpReputation
    \/ CheckRep
    \/ SaveMkdir
    \/ SaveOpen
    \/ SaveBranch
    \/ SaveHeader
    \/ SaveStatus
    \/ SaveFields
    \/ SaveReports
    \/ SaveFooter
    \/ SaveClose
    \/ SaveReturn
    \/ MainReturn
    \/ Interrupt

Spec == Init /\ [][Next]_vars

-----------------------------------------------------------------------------
(* Vocabulary of the properties *)

Exited == pc = "exited"

MissingCredential == api_key = None \/ api_key = ""

\* requests raised RequestException (connection error, timeout, non-2xx status)
NetworkError == "resolver" \in errors \/ "lookup" \in errors

\* the lookup call returned a body that is empty or has no 'data' key
DataError == reputation_data.kind \in {"empty", "nodata"}

\* the run created the output file or changed its content
FileWritten == fs.file /\ (~fs0.file \/ fs.content # fs0.content)

\* the whole report for the record received, banner to closing banner
CompleteReport ==
    HeaderWrites(ip_address, now) \o StatusWrites(reputation_data.info)
        \o FieldWrites(reputation_data.info) \o ReportWrites(reputation_data.info)
        \o FooterWrites

\* save_results_to_file returned True: the report of this run is in the file
Saved == ret = "True"

Info == reputation_data.info

-----------------------------------------------------------------------------
(* C1 *)

\* C1: a run that met any failure (missing credential, failed resolver call,
\* failed lookup call, failed file write) and was not interrupted ends with
\* exit code 1, and exit code 0 is reached only when the report was fully
\* written or the user interrupted the run.
C1_ExitCode ==
    Exited =>
        /\ (errors # {} /\ ~interrupted) => exitCode = <<1>>
        /\ exitCode = <<0>> => (interrupted \/ Saved)

-----------------------------------------------------------------------------
(* C2 *)

\* C2: on DataError (the lookup body is empty or lacks 'data'), a run that is
\* not interrupted and meets no write failure ends with the output file holding
\* exactly the line "No data received from API", and save_results_to_file has
\* told its caller that the operation failed.
C2_DataErrorReport ==
    (Exited /\ DataError /\ ~interrupted /\ errors = {}) =>
        /\ fs.file
        /\ fs.content = <<"No data received from API\n">>
        /\ ret = "False"

-----------------------------------------------------------------------------
(* C3 *)

C3_Score == IF "abuseConfidenceScore" \in DOMAIN Info THEN Info["abuseConfidenceScore"] ELSE 0

C3_Tier ==
    IF C3_Score = 0 THEN "CLEAN"
    ELSE IF C3_Score \in 1..24 THEN "LOW RISK"
    ELSE IF C3_Score \in 25..74 THEN "MODERATE RISK"
    ELSE "HIGH RISK"

\* C3: the risk tier in a written report is the one the table gives for the
\* score of the record (0 CLEAN, 1..24 LOW RISK, 25..74 MODERATE RISK, 75 and
\* above HIGH RISK), an absent score counting as 0, and the score line shows
\* that score.
C3_RiskTier ==
    Saved =>
        /\ fs.content[6] = "Reputation Status: " \o C3_Tier \o "\n"
        /\ fs.content[7] = "Abuse Confidence Score: " \o ToString(C3_Score) \o "%\n\n"

\* a report for score 25, the lowest MODERATE RISK score, is on disk
C3_Witness ==
    /\ Saved
    /\ C3_Score = 25
    /\ fs.content[6] = "Reputation Status: MODERATE RISK\n"

-----------------------------------------------------------------------------
(* C4 *)

\* C4: when the credential is unset or empty, neither HTTP call is ever made,
\* the output folder and file stay as they were, and the run, unless the user
\* interrupts it first, exits with code 1.
C4_MissingCredential ==
    MissingCredential =>
        /\ resolverCalls = 0
        /\ lookupCalls = 0
        /\ saveCalls = 0
        /\ fs = fs0
        /\ (Exited /\ ~interrupted) => exitCode = <<1>>

\* a run with an empty credential has exited with code 1
C4_Witness ==
    /\ api_key = ""
    /\ Exited
    /\ exitCode = <<1>>
    /\ "config" \in errors

-----------------------------------------------------------------------------
(* C5 *)

\* C5: each HTTP call and the report writing happen at most once; the lookup
\* call is made only after the resolver call returned an address; the report
\* is written only after the lookup call returned a body; and once either call
\* has failed no later step (lookup, writing) is ever executed.
C5_Sequential ==
    /\ resolverCalls <= 1 /\ lookupCalls <= 1 /\ saveCalls <= 1
    /\ lookupCalls = 1 => (resolverCalls = 1 /\ ip_address # None /\ ip_address # "")
    /\ saveCalls = 1 => (lookupCalls = 1 /\ reputation_data.kind # "None")
    /\ (fs # fs0 \/ buf # <<>> \/ ret # "None") => saveCalls = 1
    /\ ("resolver" \in errors \/ "resolver_body" \in errors) =>
           (lookupCalls = 0 /\ saveCalls = 0 /\ pc \in {"check_ip", "exited"})
    /\ ("lookup" \in errors \/ "lookup_body" \in errors) =>
           (saveCalls = 0 /\ pc \in {"check_rep", "exited"})

\* the lookup call failed after a successful resolver call and the run ended
C5_Witness ==
    /\ Exited
    /\ "lookup" \in errors
    /\ resolverCalls = 1
    /\ lookupCalls = 1
    /\ saveCalls = 0

-----------------------------------------------------------------------------
(* C6 *)

\* C6: once the resolver call or the lookup call has failed with a network
\* error, the output folder and the output file are as they were before the
\* run.
C6_NoReportOnNetworkError == NetworkError => fs = fs0

\* the lookup call failed and the report of an earlier run is still in place
C6_Witness ==
    /\ Exited
    /\ "lookup" \in errors
    /\ exitCode = <<1>>
    /\ fs.file
    /\ fs.content = OldContent

-----------------------------------------------------------------------------
(* C7 *)

C7_Reports == IF "reports" \in DOMAIN Info THEN Info["reports"] ELSE <<>>

C7_Shown == IF Len(C7_Reports) < 5 THEN Len(C7_Reports) ELSE 5

\* the codes c[1..k], comma-joined from the left
RECURSIVE C7_Codes(_, _)
C7_Codes(c, k) ==
    IF k = 0 THEN ""
    ELSE IF k = 1 THEN ToString(c[1])
    ELSE C7_Codes(c, k - 1) \o ", " \o ToString(c[k])

C7_Line(e) ==
    LET ts == IF "reportedAt" \in DOMAIN e THEN e.reportedAt ELSE "N/A"
        c == IF "categories" \in DOMAIN e THEN e.categories ELSE <<>>
    IN "  - " \o ts \o ": " \o C7_Codes(c, Len(c)) \o "\n"

-----------------------------------------------------------------------------
(* C8 *)

\* C8: the step at which an interrupt is raised ends the run with exit code 0,
\* and no step of the run follows an interrupt.
C8_InterruptExitsZero ==
    [][ /\ interrupted' => (pc' = "exited" /\ exitCode' = <<0>>)
        /\ interrupted => UNCHANGED vars ]_vars

\* the run was interrupted while the report was being written
C8_Witness ==
    /\ interrupted
    /\ Exited
    /\ exitCode = <<0>>
    /\ saveCalls = 1
    /\ ret = "None"
    /\ fs.file /\ fs.content # fs0.content

-----------------------------------------------------------------------------
(* C9 *)

C9_Default ==
    [countryName |-> "Unknown", countryCode |-> "N/A", isp |-> "Unknown",
     domain |-> "N/A", usageType |-> "Unknown", totalReports |-> 0,
     numDistinctUsers |-> 0, lastReportedAt |-> "Never", isWhitelisted |-> FALSE]

C9_Value(field) == IF field \in DOMAIN Info THEN Info[field] ELSE C9_Default[field]

\* C9: in a written report each of the field lines shows, for each optional
\* field it carries, the received value when the field is present and that
\* field's own default when it is absent, whatever other fields are absent.
C9_FieldDefaults ==
    Saved =>
        /\ fs.content[8] = "Country: " \o C9_Value("countryName")
                               \o " (" \o C9_Value("countryCode") \o ")\n"
        /\ fs.content[9] = "ISP: " \o C9_Value("isp") \o "\n"
        /\ fs.content[10] = "Domain: " \o C9_Value("domain") \o "\n"
        /\ fs.content[11] = "Usage Type: " \o C9_Value("usageType") \o "\n"
        /\ fs.content[12] = "Total Reports: " \o ToString(C9_Value("totalReports")) \o "\n"
        /\ fs.content[13] = "Distinct Users Reported: "
                                \o ToString(C9_Value("numDistinctUsers")) \o "\n"
        /\ fs.content[14] = "Last Reported: " \o C9_Value("lastReportedAt") \o "\n"
        /\ fs.content[15] = "Whitelisted: "
                                \o (IF C9_Value("isWhitelisted") THEN "Yes" ELSE "No") \o "\n"

\* a report for a record with countryName, domain and totalReports present and
\* countryCode, isp and lastReportedAt absent
C9_Witness ==
    /\ Saved
    /\ {"countryName", "domain", "totalReports"} \subseteq DOMAIN Info
    /\ DOMAIN Info \cap {"countryCode", "isp", "lastReportedAt"} = {}
    /\ fs.content[8] = "Country: Testland (N/A)\n"
    /\ fs.content[9] = "ISP: Unknown\n"
    /\ fs.content[10] = "Domain: example.net\n"

-----------------------------------------------------------------------------
(* C10 *)

\* C10: after a run that created or modified the output file, the file holds
\* either exactly the no-data line or the complete report, never a truncated
\* one; and save_results_to_file returned True exactly when the complete
\* report was written.
C10_NoTruncatedReport ==
    Exited =>
        /\ FileWritten =>
               (fs.content = NoDataWrites
                    \/ (reputation_data.kind = "record" /\ fs.content = CompleteReport))
        /\ Saved <=>
               (FileWritten /\ reputation_data.kind = "record"
                    /\ fs.content = CompleteReport)

====
